---- MODULE Spec2Model ----
(***************************************************************************)
(* Court Fetcher (app.py): the three request handlers search_case,         *)
(* download_pdf and get_history, the CourtDataFetcher they drive, the      *)
(* queries table and the /tmp files, as a state machine.                   *)
(*                                                                         *)
(* Python values: None is the string "None" for the request fields and     *)
(* PyNone for the values of a result dict; a str is a sequence of one-     *)
(* character strings where its characters matter (page text, dates) and a  *)
(* one-element sequence holding the whole text otherwise (messages).       *)
(* A dict is the sequence of its <<key, value>> pairs in insertion order.  *)
(***************************************************************************)
EXTENDS Integers, Sequences, FiniteSets, TLC

VARIABLES
    req,        \* per request: handler, position in it, locals, response
    sessions,   \* requests whose Chrome process is running
    log,        \* the rows of table queries, in insertion (id) order
    clock,      \* CURRENT_TIMESTAMP, in seconds
    tmp,        \* /tmp: filename -> content (<<>> when the file is absent)
    doc,        \* text handed to parse_case_details (extractor runs)
    parsed      \* what parse_case_details returned for doc

vars == <<req, sessions, log, clock, tmp, doc, parsed>>

\* ------------------------------------------------------------------ bounds
MaxReq == 2
MaxHistLog == 52
MaxTies == 1
MaxDocTokens == 3

\* LIMIT 50 of the history query
HistoryLimit == 50

Requests == 1..MaxReq

None == "None"
PyNone == [t |-> "none", s |-> <<>>]
PyStr(s) == [t |-> "str", s |-> s]

Min(a, b) == IF a <= b THEN a ELSE b

\* ------------------------------------------------ parse_case_details (dates)
Digits == {"0", "1", "2", "3", "4", "5", "6", "7", "8", "9"}
Letters == {"v", "s", "x"}

\* \w of the re module, over the characters the model uses
IsWordChar(c) == c \in Digits \cup Letters \cup {"_"}

\* \b at the gap after position p (0 = before the first character)
WordBoundary(t, p) ==
    LET before == p >= 1 /\ p <= Len(t) /\ IsWordChar(t[p])
        after  == p + 1 >= 1 /\ p + 1 <= Len(t) /\ IsWordChar(t[p + 1])
    IN  before # after

AllDigits(t, from, n) ==
    /\ from + n - 1 <= Len(t)
    /\ \A k \in from..(from + n - 1) : t[k] \in Digits

IsSep(t, p) == p <= Len(t) /\ t[p] \in {"-", "/"}

\* \b\d{1,2}[-/]\d{1,2}[-/]\d{2,4}\b at position i with the given repetition
\* counts
DateMatches(t, i, d, m, y) ==
    /\ WordBoundary(t, i - 1)
    /\ AllDigits(t, i, d)
    /\ IsSep(t, i + d)
    /\ AllDigits(t, i + d + 1, m)
    /\ IsSep(t, i + d + 1 + m)
    /\ AllDigits(t, i + d + m + 2, y)
    /\ WordBoundary(t, i + d + m + y + 1)

\* the regex engine's choice among the repetition counts: greedy, leftmost
\* quantifier first
Greedier(a, b) ==
    \/ a[1] > b[1]
    \/ a[1] = b[1] /\ a[2] > b[2]
    \/ a[1] = b[1] /\ a[2] = b[2] /\ a[3] >= b[3]

\* end position of the match of date_pattern starting at i, 0 when none
MatchEnd(t, i) ==
    LET cands == {c \in (1..2) \X (1..2) \X (2..4) :
                    DateMatches(t, i, c[1], c[2], c[3])}
    IN  IF cands = {} THEN 0
        ELSE LET c == CHOOSE a \in cands : \A b \in cands : Greedier(a, b)
             IN  i + c[1] + c[2] + c[3] + 1

\* re.findall(date_pattern, text): leftmost non-overlapping matches
RECURSIVE findall(_, _)
findall(t, pos) ==
    IF pos > Len(t) THEN <<>>
    ELSE LET e == MatchEnd(t, pos)
         IN  IF e = 0 THEN findall(t, pos + 1)
             ELSE <<SubSeq(t, pos, e)>> \o findall(t, e + 1)

\* app.py:152-154 with the second conditional dropped to "len(dates) > 0"
next_hearing_any(dates) ==
    IF Len(dates) > 0 THEN PyStr(dates[Len(dates)]) ELSE PyNone

\* dates[0] if len(dates) > 0 else None, inside "if dates:"
filing_date_of(dates) ==
    IF dates # <<>>
    THEN (IF Len(dates) > 0 THEN PyStr(dates[1]) ELSE PyNone)
    ELSE PyNone

\* dates[-1] if len(dates) > 1 else None, inside "if dates:"
next_hearing_date_of(dates) ==
    IF dates # <<>>
    THEN (IF Len(dates) > 1 THEN PyStr(dates[Len(dates)]) ELSE PyNone)
    ELSE PyNone

\* the dict parse_case_details returns when nothing raises (parties and
\* orders, which no date depends on, are left out of the dict)
parse_case_details(text) ==
    LET dates == findall(text, 1)
    IN  << <<"filing_date", filing_date_of(dates)>>,
           <<"next_hearing_date", next_hearing_date_of(dates)>>,
           <<"status", PyStr(<<"Active">>)>> >>

\* the except branch of parse_case_details
ParseFailed == << <<"error", PyStr(<<"Failed to parse case details">>)>> >>

\* "error" in case_data
HasKey(d, k) == \E i \in 1..Len(d) : d[i][1] = k

\* page texts: up to MaxDocTokens tokens joined by single spaces
TokDash  == <<"1", "2", "-", "0", "3", "-", "2", "0", "2", "3">>
TokSlash == <<"0", "1", "/", "0", "1", "/", "2", "0", "2", "2">>
TokShort == <<"1", "/", "6", "/", "2", "2">>
TokIso   == <<"2", "0", "2", "3", "-", "0", "1", "-", "1", "5">>
TokWord  == <<"v", "s">>
Tokens == {TokDash, TokSlash, TokShort, TokIso, TokWord}

RECURSIVE Texts(_)
Texts(n) ==
    IF n = 0 THEN {<<>>}
    ELSE LET shorter == Texts(n - 1)
         IN  shorter \cup Tokens
               \cup {s \o <<" ">> \o k : s \in shorter \ {<<>>}, k \in Tokens}

Docs == Texts(MaxDocTokens)

NotParsed == << <<"unparsed", PyNone>> >>

\* ------------------------------------------------------- json.dumps
\* json.dumps of a value of a result dict: None becomes null, a str is quoted
json_value(v) ==
    IF v.t = "none" THEN <<"null">> ELSE <<"\"">> \o v.s \o <<"\"">>

RECURSIVE json_members(_, _)
json_members(d, i) ==
    IF i > Len(d) THEN <<>>
    ELSE (IF i > 1 THEN <<",">> ELSE <<>>)
           \o <<d[i][1], ":">> \o json_value(d[i][2]) \o json_members(d, i + 1)

\* json.dumps(parsed_data) of save_query_to_db, and jsonify of a dict
json_dumps(d) == <<"{">> \o json_members(d, 1) \o <<"}">>

ErrorDict(msg) == << <<"error", PyStr(<<msg>>)>> >>

\* ------------------------------------------------------------ responses
NoResp ==
    [code |-> 0, kind |-> "none", json |-> <<>>, rows |-> <<>>, ids |-> <<>>,
     bytes |-> <<>>]

\* jsonify(d), code
JsonResp(d, code) == [NoResp EXCEPT !.code = code, !.kind = "json", !.json = json_dumps(d)]

\* send_file(temp_path, ...), once the file has been streamed to the caller
FileResp(bytes) == [NoResp EXCEPT !.code = 200, !.kind = "file", !.bytes = bytes]

\* jsonify(history); ids (not sent) is the queries.id of each row returned
ListResp(rows, ids) ==
    [NoResp EXCEPT !.code = 200, !.kind = "list", !.rows = rows, !.ids = ids]

\* ------------------------------------------------------- request inputs
AbsentBody == [kind |-> "absent", case_type |-> None, case_number |-> None, filing_year |-> None]
NullBody   == [kind |-> "null", case_type |-> None, case_number |-> None, filing_year |-> None]

\* a JSON object; a key that is missing reads as None through data.get
Body(case_type, case_number, filing_year) ==
    [kind |-> "dict", case_type |-> case_type, case_number |-> case_number,
     filing_year |-> filing_year]

DictBodies ==
    {Body("CS", "101", "2023"), Body("WP", "101", "2023"),
     Body(None, "101", "2023"), Body("", "101", "2023"),
     Body("CS", None, "2023"), Body("CS", "", "2023"),
     Body("CS", "101", None), Body("CS", "101", ""),
     Body(None, None, None)}

Bodies == {AbsentBody, NullBody} \cup DictBodies

\* truth value of a str-or-None
Truthy(v) == v \notin {None, ""}

\* all([case_type, case_number, filing_year])
AllFields(b) == Truthy(b.case_type) /\ Truthy(b.case_number) /\ Truthy(b.filing_year)

NoUrl    == [kind |-> "none", host |-> "", path |-> <<>>]
EmptyUrl == [kind |-> "empty", host |-> "", path |-> <<>>]
UrlA     == [kind |-> "url", host |-> "a", path |-> <<"orders", "x.pdf">>]
UrlB     == [kind |-> "url", host |-> "b", path |-> <<"files", "x.pdf">>]
UrlRoot  == [kind |-> "url", host |-> "a", path |-> <<"">>]
UrlGone  == [kind |-> "url", host |-> "a", path |-> <<"gone.pdf">>]
Urls == {UrlA, UrlB, UrlRoot, UrlGone}
UrlArgs == {NoUrl, EmptyUrl} \cup Urls

\* what requests.get(pdf_url) answers, when it answers
Remote(u) ==
    IF u = UrlA THEN [status |-> 200, body |-> <<"A1", "A2">>]
    ELSE IF u = UrlB THEN [status |-> 200, body |-> <<"B1">>]
    ELSE IF u = UrlRoot THEN [status |-> 200, body |-> <<"R1">>]
    ELSE [status |-> 404, body |-> <<>>]

\* os.path.basename(urlparse(pdf_url).path): what follows the last "/"
basename(path) == IF path = <<>> THEN "" ELSE path[Len(path)]

\* ... or "document.pdf"
filename_of(u) == IF basename(u.path) # "" THEN basename(u.path) ELSE "document.pdf"

FileNames == {filename_of(u) : u \in Urls}

\* exceptions the try block of fetch_case_data raises before parsing
AutomationErrors == {"timeout", "no such element"}

\* page_source of a search that went through
Pages == {<<>>, TokSlash \o <<" ">> \o TokWord \o <<" ">> \o TokShort}

\* -------------------------------------------------------------- Log Store
\* the INSERT of save_query_to_db: id from AUTOINCREMENT, query_timestamp
\* from CURRENT_TIMESTAMP; by (no column) is the request that wrote the row
save_query_to_db(rows, now, case_type, case_number, filing_year, raw_response, parsed_data, status, by) ==
    Append(rows,
           [id |-> Len(rows) + 1, case_type |-> case_type,
            case_number |-> case_number, filing_year |-> filing_year,
            query_timestamp |-> now, raw_response |-> raw_response,
            parsed_data |-> json_dumps(parsed_data), status |-> status,
            by |-> by])

\* every place the row with index i can take in s, a sequence of row indexes
\* already in ORDER BY query_timestamp DESC order
InsertByTimestamp(rows, s, i) ==
    { SubSeq(s, 1, p) \o <<i>> \o SubSeq(s, p + 1, Len(s)) :
        p \in { q \in 0..Len(s) :
                  /\ q = 0 \/ rows[s[q]].query_timestamp >= rows[i].query_timestamp
                  /\ q = Len(s) \/ rows[s[q + 1]].query_timestamp <= rows[i].query_timestamp } }

\* ORDER BY query_timestamp DESC over the first n rows: every order of the
\* row indexes that is non-increasing in query_timestamp (SQL leaves the
\* order of rows with equal keys to the engine)
RECURSIVE OrderByTimestampDesc(_, _)
OrderByTimestampDesc(rows, n) ==
    IF n = 0 THEN {<<>>}
    ELSE UNION { InsertByTimestamp(rows, s, n) : s \in OrderByTimestampDesc(rows, n - 1) }

\* the query without its LIMIT clause
LimitOff(s) == s

\* LIMIT 50
Limit(s) == SubSeq(s, 1, Min(HistoryLimit, Len(s)))

\* the dict get_history builds from one row
HistoryEntry(row) ==
    [case_type |-> row.case_type, case_number |-> row.case_number,
     filing_year |-> row.filing_year, timestamp |-> row.query_timestamp,
     status |-> row.status]

\* ----------------------------------------------------------------- state
Idle ==
    [op |-> "none", pc |-> "idle", body |-> AbsentBody, url |-> NoUrl,
     case_data |-> <<>>, outcome |-> "none", launched |-> FALSE, fetches |-> 0,
     backstop |-> "none", fname |-> "", content |-> <<>>, resp |-> NoResp]

Init ==
    /\ req = [r \in Requests |-> Idle]
    /\ sessions = {}
    /\ log = <<>>
    /\ clock = 0
    /\ tmp = [f \in FileNames |-> <<>>]
    /\ doc = <<>>
    /\ parsed = NotParsed

\* requests are numbered in the order they arrive
Arrives(r) ==
    /\ req[r].pc = "idle"
    /\ IF r = 1 THEN TRUE ELSE req[r - 1].pc # "idle"

\* the handler returns resp
Return(r, cur, resp) == [cur EXCEPT !.pc = "done", !.resp = resp]

\* the except clause of a handler: log, then jsonify({"error": msg}), 500
Except(r, cur, msg, what) ==
    [Return(r, cur, JsonResp(ErrorDict(msg), 500)) EXCEPT !.backstop = what]

\* ------------------------------------------------------------ search_case
\* "success" if "error" not in case_data else "error", always "success"
status_always_success(case_data) == "success"

\* status = "success" if "error" not in case_data else "error"
status_of(case_data) == IF ~HasKey(case_data, "error") THEN "success" ELSE "error"

\* request.get_json(), the three data.get and the all([...]) test
search_case_begin(r, b) ==
    /\ Arrives(r)
    /\ LET cur == [req[r] EXCEPT !.op = "search", !.body = b]
       IN  req' = [req EXCEPT ![r] =
                IF b.kind \in {"absent", "null"}
                THEN \* get_json raises, or returns None and data.get raises
                     Except(r, cur, "Internal server error", "body")
                ELSE IF ~AllFields(b)
                THEN Return(r, cur, JsonResp(ErrorDict("All fields are required"), 400))
                ELSE [cur EXCEPT !.pc = "setup"]]
    /\ UNCHANGED <<sessions, log, clock, tmp, doc, parsed>>

\* fetch_case_data is entered; webdriver.Chrome starts a browser
setup_driver_ok(r) ==
    /\ req[r].pc = "setup"
    /\ req' = [req EXCEPT ![r].pc = "automate", ![r].launched = TRUE,
                          ![r].fetches = @ + 1]
    /\ sessions' = sessions \cup {r}
    /\ UNCHANGED <<log, clock, tmp, doc, parsed>>

\* webdriver.Chrome raises: setup_driver returns None, fetch_case_data
\* returns the error dict
setup_driver_fails(r) ==
    /\ req[r].pc = "setup"
    /\ req' = [req EXCEPT ![r].pc = "save", ![r].fetches = @ + 1,
                          ![r].outcome = "driver_fail",
                          ![r].case_data = ErrorDict("Failed to initialize browser")]
    /\ UNCHANGED <<sessions, log, clock, tmp, doc, parsed>>

\* where fetch_case_data goes when the try block leaves without driver.quit
\* in a finally clause: only the normal return quits
after_try_no_finally(raised) == IF raised THEN "save" ELSE "quit"

\* where fetch_case_data goes when the try block is left: the finally clause
after_try(raised) == "quit"

\* the try block raises (wait timeout, element not found, ...): the except
\* clause makes the error dict
fetch_raises(r, m) ==
    /\ req[r].pc = "automate"
    /\ req' = [req EXCEPT ![r].pc = after_try(TRUE), ![r].outcome = m,
                          ![r].case_data = ErrorDict(m)]
    /\ UNCHANGED <<sessions, log, clock, tmp, doc, parsed>>

\* the form is submitted and parse_case_details returns the result dict
fetch_parses(r, page) ==
    /\ req[r].pc = "automate"
    /\ req' = [req EXCEPT ![r].pc = after_try(FALSE), ![r].outcome = "success",
                          ![r].case_data = parse_case_details(page)]
    /\ UNCHANGED <<sessions, log, clock, tmp, doc, parsed>>

\* parse_case_details raises inside and returns its error dict
fetch_parse_fails(r) ==
    /\ req[r].pc = "automate"
    /\ req' = [req EXCEPT ![r].pc = after_try(FALSE), ![r].outcome = "parse_error",
                          ![r].case_data = ParseFailed]
    /\ UNCHANGED <<sessions, log, clock, tmp, doc, parsed>>

\* finally: driver.quit() ends the browser; fetch_case_data returns
driver_quit(r) ==
    /\ req[r].pc = "quit"
    /\ req' = [req EXCEPT ![r].pc = "save"]
    /\ sessions' = sessions \ {r}
    /\ UNCHANGED <<log, clock, tmp, doc, parsed>>

\* driver.quit() ends the browser and raises: the exception leaves
\* fetch_case_data and reaches the except clause of search_case
driver_quit_raises(r) ==
    /\ req[r].pc = "quit"
    /\ req' = [req EXCEPT ![r] = Except(r, req[r], "Internal server error", "teardown")]
    /\ sessions' = sessions \ {r}
    /\ UNCHANGED <<log, clock, tmp, doc, parsed>>

\* status, save_query_to_db, return jsonify(case_data)
search_case_save(r) ==
    /\ req[r].pc = "save"
    /\ log' = save_query_to_db(log, clock, req[r].body.case_type,
                               req[r].body.case_number, req[r].body.filing_year,
                               <<>>, req[r].case_data, status_of(req[r].case_data), r)
    /\ req' = [req EXCEPT ![r] = Return(r, req[r], JsonResp(req[r].case_data, 200))]
    /\ UNCHANGED <<sessions, clock, tmp, doc, parsed>>

\* save_query_to_db raises (connect, INSERT or commit): no row is written and
\* the except clause of search_case answers
search_case_save_raises(r) ==
    /\ req[r].pc = "save"
    /\ req' = [req EXCEPT ![r] = Except(r, req[r], "Internal server error", "append")]
    /\ UNCHANGED <<sessions, log, clock, tmp, doc, parsed>>

\* ----------------------------------------------------------- download_pdf
\* the url test, requests.get and the status test
download_pdf_begin(r, u) ==
    /\ Arrives(r)
    /\ LET cur == [req[r] EXCEPT !.op = "download", !.url = u]
       IN  req' = [req EXCEPT ![r] =
                IF u.kind # "url"
                THEN Return(r, cur, JsonResp(ErrorDict("PDF URL required"), 400))
                ELSE IF Remote(u).status = 200
                THEN [cur EXCEPT !.pc = "write", !.fname = filename_of(u),
                                 !.content = Remote(u).body]
                ELSE Return(r, cur, JsonResp(ErrorDict("Failed to download PDF"), 400))]
    /\ UNCHANGED <<sessions, log, clock, tmp, doc, parsed>>

\* requests.get raises
download_pdf_get_raises(r, u) ==
    /\ Arrives(r)
    /\ u.kind = "url"
    /\ req' = [req EXCEPT ![r] =
                Except(r, [req[r] EXCEPT !.op = "download", !.url = u],
                       "Download failed", "fetch")]
    /\ UNCHANGED <<sessions, log, clock, tmp, doc, parsed>>

\* open(temp_path, 'wb') and the chunk loop; send_file builds the response
\* that will stream temp_path
download_pdf_write(r) ==
    /\ req[r].pc = "write"
    /\ tmp' = [tmp EXCEPT ![req[r].fname] = req[r].content]
    /\ req' = [req EXCEPT ![r].pc = "send"]
    /\ UNCHANGED <<sessions, log, clock, doc, parsed>>

\* open or write raises
download_pdf_write_raises(r) ==
    /\ req[r].pc = "write"
    /\ req' = [req EXCEPT ![r] = Except(r, req[r], "Download failed", "write")]
    /\ UNCHANGED <<sessions, log, clock, tmp, doc, parsed>>

\* the response of send_file is streamed: the caller receives what temp_path
\* holds now
download_pdf_send(r) ==
    /\ req[r].pc = "send"
    /\ req' = [req EXCEPT ![r] = Return(r, req[r], FileResp(tmp[req[r].fname]))]
    /\ UNCHANGED <<sessions, log, clock, tmp, doc, parsed>>

\* ------------------------------------------------------------ get_history
get_history(r) ==
    /\ Arrives(r)
    /\ \E order \in OrderByTimestampDesc(log, Len(log)) :
         LET ids == Limit(order)
         IN  req' = [req EXCEPT ![r] =
                Return(r, [req[r] EXCEPT !.op = "history"],
                       ListResp([k \in 1..Len(ids) |-> HistoryEntry(log[ids[k]])],
                                [k \in 1..Len(ids) |-> log[ids[k]].id]))]
    /\ UNCHANGED <<sessions, log, clock, tmp, doc, parsed>>

\* connect, execute or fetchall raises
get_history_raises(r) ==
    /\ Arrives(r)
    /\ req' = [req EXCEPT ![r] =
                Except(r, [req[r] EXCEPT !.op = "history"],
                       "Failed to fetch history", "read")]
    /\ UNCHANGED <<sessions, log, clock, tmp, doc, parsed>>

\* a second passes (only a second that separates two rows can be observed)
Tick ==
    /\ log # <<>>
    /\ log[Len(log)].query_timestamp = clock
    /\ clock' = clock + 1
    /\ UNCHANGED <<req, sessions, log, tmp, doc, parsed>>

Next ==
    \/ \E r \in Requests, b \in Bodies : search_case_begin(r, b)
    \/ \E r \in Requests : setup_driver_ok(r)
    \/ \E r \in Requests : setup_driver_fails(r)
    \/ \E r \in Requests, m \in AutomationErrors : fetch_raises(r, m)
    \/ \E r \in Requests, page \in Pages : fetch_parses(r, page)
    \/ \E r \in Requests : fetch_parse_fails(r)
    \/ \E r \in Requests : driver_quit(r)
    \/ \E r \in Requests : driver_quit_raises(r)
    \/ \E r \in Requests : search_case_save(r)
    \/ \E r \in Requests : search_case_save_raises(r)
    \/ \E r \in Requests, u \in UrlArgs : download_pdf_begin(r, u)
    \/ \E r \in Requests, u \in UrlArgs : download_pdf_get_raises(r, u)
    \/ \E r \in Requests : download_pdf_write(r)
    \/ \E r \in Requests : download_pdf_write_raises(r)
    \/ \E r \in Requests : download_pdf_send(r)
    \/ \E r \in Requests : get_history(r)
    \/ \E r \in Requests : get_history_raises(r)
    \/ Tick

Spec == Init /\ [][Next]_vars

\* ------------------------------------------- the Log Store and its listing
\* rows written in the same second as the row before them
Ties(rows) ==
    Cardinality({i \in 1..(Len(rows) - 1) :
                   rows[i].query_timestamp = rows[i + 1].query_timestamp})

\* one log write, as search_case makes it for a lookup that found nothing,
\* gap seconds after the one before
HistSave(gap) ==
    /\ req[1].pc = "idle"
    /\ Len(log) < MaxHistLog
    /\ IF log = <<>> THEN gap = 0 ELSE (gap = 0 => Ties(log) < MaxTies)
    /\ clock' = clock + gap
    /\ log' = save_query_to_db(log, clock', "CS", "101", "2023", <<>>,
                               parse_case_details(<<>>),
                               status_of(parse_case_details(<<>>)), 0)
    /\ UNCHANGED <<req, sessions, tmp, doc, parsed>>

\* the caller has its listing; the next request may come
HistAck ==
    /\ req[1].pc = "done"
    /\ req' = [req EXCEPT ![1] = Idle]
    /\ UNCHANGED <<sessions, log, clock, tmp, doc, parsed>>

NextHist ==
    \/ \E gap \in {0, 1} : HistSave(gap)
    \/ get_history(1)
    \/ get_history_raises(1)
    \/ HistAck

SpecHist == Init /\ [][NextHist]_vars

\* --------------------------------------------------- the extractor alone
InitParse ==
    /\ req = <<>>
    /\ sessions = {}
    /\ log = <<>>
    /\ clock = 0
    /\ tmp = <<>>
    /\ doc \in Docs
    /\ parsed = NotParsed

ParseOk ==
    /\ parsed = NotParsed
    /\ parsed' = parse_case_details(doc)
    /\ UNCHANGED <<req, sessions, log, clock, tmp, doc>>

ParseRaises ==
    /\ parsed = NotParsed
    /\ parsed' = ParseFailed
    /\ UNCHANGED <<req, sessions, log, clock, tmp, doc>>

NextParse == ParseOk \/ ParseRaises

SpecParse == InitParse /\ [][NextParse]_vars

\* ================================================================= claims
Range(f) == {f[i] : i \in DOMAIN f}

\* d[k] of a dict
Get(d, k) == d[CHOOSE i \in 1..Len(d) : d[i][1] = k][2]

RowsBy(r) == {i \in 1..Len(log) : log[i].by = r}

\* a JSON object with the single member "error"
IsErrorObject(j) ==
    /\ Len(j) >= 3
    /\ j[1] = "{"
    /\ j[2] = "error"
    /\ \A k \in 1..Len(j) : j[k] # ","

SearchDone(r) == req[r].op = "search" /\ req[r].pc = "done"

HistoryDone(r) ==
    req[r].op = "history" /\ req[r].pc = "done" /\ req[r].resp.code = 200

\* C1: every lookup request with all three fields present and non-empty has,
\* when it returns, exactly one row of its own in the Log Store, with the
\* request's case_type, case_number and filing_year and status success or
\* error.
C1_ExactlyOneRecord ==
    \A r \in Requests :
        SearchDone(r) /\ req[r].body.kind = "dict" /\ AllFields(req[r].body) =>
            /\ Cardinality(RowsBy(r)) = 1
            /\ \A i \in RowsBy(r) :
                 /\ log[i].case_type = req[r].body.case_type
                 /\ log[i].case_number = req[r].body.case_number
                 /\ log[i].filing_year = req[r].body.filing_year
                 /\ log[i].status \in {"success", "error"}

\* C2: a lookup request with a field missing or empty (or with an absent or
\* null body) is answered 400, starts no browser and writes no row.
C2_MissingFieldRejected ==
    \A r \in Requests :
        SearchDone(r) /\ ~(req[r].body.kind = "dict" /\ AllFields(req[r].body)) =>
            /\ req[r].resp.code = 400
            /\ ~req[r].launched
            /\ req[r].fetches = 0
            /\ RowsBy(r) = {}

\* C3: once fetch_case_data has been left (returned or raised) by a request
\* that launched a browser, that browser is no longer running; the only
\* browsers running belong to requests still inside the try block or the
\* finally clause.
C3_BrowserTerminated ==
    /\ \A r \in Requests :
         req[r].launched /\ req[r].pc \in {"save", "done"} => r \notin sessions
    /\ \A r \in sessions : req[r].pc \in {"automate", "quit"}

C3_Witness ==
    \E r \in Requests :
        /\ req[r].launched
        /\ req[r].outcome = "timeout"
        /\ req[r].pc = "done"
        /\ r \notin sessions

\* C4: every response of the three handlers is the success payload with 200
\* or a JSON object {error: message} with status 400 or 500.
C4_WellFormed ==
    \A r \in Requests :
        req[r].pc = "done" =>
            \/ /\ req[r].resp.code = 200
               /\ \/ req[r].resp.kind \in {"file", "list"}
                  \/ req[r].resp.kind = "json" /\ ~IsErrorObject(req[r].resp.json)
            \/ /\ req[r].resp.code \in {400, 500}
               /\ req[r].resp.kind = "json"
               /\ IsErrorObject(req[r].resp.json)

\* C5: a history listing has at most 50 entries, is non-increasing in
\* timestamp (each entry is no older than the one after it), and holds the
\* most recent rows: all rows when there are at most 50, and otherwise 50
\* rows the oldest of which is no older than any row left out.
C5_HistoryMostRecent ==
    \A r \in Requests :
        HistoryDone(r) =>
            LET rows == req[r].resp.rows
                n    == Len(rows)
                returned == Range(req[r].resp.ids)
            IN  /\ n <= 50
                /\ n = Min(50, Len(log))
                /\ \A i \in 1..(n - 1) : rows[i].timestamp >= rows[i + 1].timestamp
                /\ \A k \in 1..Len(log) :
                     log[k].id \notin returned =>
                        rows[n].timestamp >= log[k].query_timestamp

C5_Witness ==
    \E r \in Requests :
        /\ HistoryDone(r)
        /\ Len(log) > 50
        /\ Len(req[r].resp.rows) = 50
        /\ Ties(log) > 0

\* C6: in a history listing, of two rows with equal query_timestamp the one
\* with the larger id comes first, and a row left out by the cap has a
\* smaller id than every listed row with its timestamp.
C6_TiesNewestFirst ==
    \A r \in Requests :
        HistoryDone(r) =>
            LET rows == req[r].resp.rows
                ids  == req[r].resp.ids
            IN  /\ \A i, j \in 1..Len(rows) :
                     i < j /\ rows[i].timestamp = rows[j].timestamp => ids[i] > ids[j]
                /\ \A k \in 1..Len(log), i \in 1..Len(rows) :
                     /\ log[k].id \notin Range(ids)
                     /\ log[k].query_timestamp = rows[i].timestamp
                     => ids[i] > log[k].id

C8_DatesByPosition ==
    parsed # NotParsed /\ ~HasKey(parsed, "error") =>
        LET D == findall(doc, 1)
        IN  /\ Get(parsed, "filing_date") =
                 (IF Len(D) >= 1 THEN PyStr(D[1]) ELSE PyNone)
            /\ Get(parsed, "next_hearing_date") =
                 (IF Len(D) >= 2 THEN PyStr(D[Len(D)]) ELSE PyNone)

C8_Witness ==
    /\ doc = TokWord \o <<" ">> \o TokDash
    /\ parsed # NotParsed
    /\ ~HasKey(parsed, "error")
    /\ Get(parsed, "filing_date") = PyStr(TokDash)
    /\ Get(parsed, "next_hearing_date") = PyNone

\* C9: the except clause of search_case never handles a failure of the Case
\* Lookup Client (browser teardown included) or of the Log Store append.
C9_NoComponentFailureEscapes ==
    \A r \in Requests : req[r].backstop \notin {"teardown", "append"}

\* C10: the bytes a document relay request returns are the body fetched for
\* its own URL.
C10_OwnBytes ==
    \A r \in Requests :
        req[r].op = "download" /\ req[r].pc = "done" /\ req[r].resp.code = 200 =>
            req[r].resp.bytes = Remote(req[r].url).body

====
